---- MODULE Spec2Model ----
(***************************************************************************)
(* Model of pyvrl/models/classifiers/tsn/tsn_modules.py:                   *)
(*   SimpleSTModule   - spatio-temporal pooling module                     *)
(*   _SimpleConsensus - segmental consensus (mean) with manual backward    *)
(*   SimpleClsHead    - classification head: forward and loss              *)
(* Tensors are records [shape, data]: shape is the sequence of extents and *)
(* data the elements in row-major (contiguous) order.  Real numbers are    *)
(* exact fractions <<numerator, denominator>> in lowest terms.             *)
(***************************************************************************)
EXTENDS Integers, Sequences, FiniteSets, TLC

VARIABLES st_pc, st_args, st_self, st_data, st_out,
          cs_pc, cs_x, cs_dim, cs_ctx, cs_out, cs_gout, cs_gin,
          hd_pc, hd_cfg, hd_self, hd_x, hd_res,
          ls_pc, ls_logits, ls_labels, ls_res

st_vars == <<st_pc, st_args, st_self, st_data, st_out>>

cs_vars == <<cs_pc, cs_x, cs_dim, cs_ctx, cs_out, cs_gout, cs_gin>>

hd_vars == <<hd_pc, hd_cfg, hd_self, hd_x, hd_res>>

ls_vars == <<ls_pc, ls_logits, ls_labels, ls_res>>

vars == <<st_vars, cs_vars, hd_vars, ls_vars>>

(***************************************************************************)
(* Bounds of the explored inputs.                                          *)
(***************************************************************************)
MaxPool == 2        \* largest pooling size argument tried
MaxDim  == 2        \* largest extent of a pooled tensor's axes
ConsMaxElems == 4   \* largest number of elements of a consensus input
LossMaxElems == 8   \* largest number of elements of a logits tensor
MaxClasses == 2     \* largest number of classes of a logits tensor
MaxSize == 2        \* largest channel / temporal / spatial size of a head and
                    \* largest non-batch extent of a tensor forwarded to it

None == "None"

(***************************************************************************)
(* Python helpers.                                                         *)
(***************************************************************************)
\* A Python value that is an int or a tuple of ints
PyInt(n)   == [int |-> n]
PyTuple(t) == [tuple |-> t]
IsPyInt(v) == "int" \in DOMAIN v

\* `v == -1` for such a value: a tuple never equals -1
EqMinusOne(v) == IF IsPyInt(v) THEN v.int = -1 ELSE FALSE

\* Python's `^` on two bools
Xor(a, b) == (a /\ ~b) \/ (~a /\ b)

(***************************************************************************)
(* Exact arithmetic and tensor layout.                                     *)
(***************************************************************************)
Abs(n) == IF n < 0 THEN -n ELSE n

RECURSIVE GCD(_, _)
GCD(a, b) == IF b = 0 THEN a ELSE GCD(b, a % b)

\* the fraction n/d (d > 0) in lowest terms
Frac(n, d) ==
    LET g == GCD(Abs(n), d)
    IN IF g = 0 THEN <<0, 1>> ELSE <<n \div g, d \div g>>

RECURSIVE Prod(_)
Prod(sh) == IF sh = <<>> THEN 1 ELSE Head(sh) * Prod(Tail(sh))

RECURSIVE SumSeq(_)
SumSeq(q) == IF q = <<>> THEN 0 ELSE Head(q) + SumSeq(Tail(q))

\* number of elements spanned by one step along axis d (1-based) of a
\* contiguous tensor of shape sh
Stride(sh, d) == Prod(SubSeq(sh, d + 1, Len(sh)))

\* all shapes of the given ranks with extents >= 1 and at most maxElems elements
RECURSIVE ShapesOfRank(_, _)
ShapesOfRank(r, maxElems) ==
    IF r = 0 THEN {<<>>}
    ELSE { <<e>> \o t : e \in 1..maxElems, t \in ShapesOfRank(r - 1, maxElems) }

Shapes(ranks, maxElems) ==
    UNION { { sh \in ShapesOfRank(r, maxElems) : Prod(sh) <= maxElems } :
            r \in ranks }

\* contiguous tensors of the given shapes with elements from vals
Tensors(shapes, vals) ==
    UNION { { [shape |-> sh, data |-> dt] : dt \in [1..Prod(sh) -> vals] } :
            sh \in shapes }

(***************************************************************************)
(* SimpleSTModule                                                          *)
(***************************************************************************)
SpatialTypes == {"avg", "max", "sum"}
SizeArgs     == -2..MaxPool

STIdle ==
    /\ st_pc = "idle"
    /\ st_args = None
    /\ st_self = None
    /\ st_data = None
    /\ st_out = None

CSIdle ==
    /\ cs_pc = "idle" /\ cs_x = None /\ cs_dim = None /\ cs_ctx = None
    /\ cs_out = None /\ cs_gout = None /\ cs_gin = None

HDIdle ==
    /\ hd_pc = "idle" /\ hd_cfg = None /\ hd_self = None
    /\ hd_x = None /\ hd_res = None

LSIdle ==
    /\ ls_pc = "idle" /\ ls_logits = None /\ ls_labels = None /\ ls_res = None

STInit ==
    /\ CSIdle /\ HDIdle /\ LSIdle
    /\ st_pc = "new"
    /\ st_args \in [spatial_type : SpatialTypes,
                    spatial_size : SizeArgs,
                    temporal_size : SizeArgs]
    /\ st_self = None
    /\ st_data = None
    /\ st_out = None

\* variant: the membership assertion is missing
TypeAssertOk_NoCheck(a) == a.spatial_type \in SpatialTypes

\* line 14: assert spatial_type in ['avg', 'max']
TypeAssertOk(a) == a.spatial_type \in {"avg", "max"}

\* lines 17-19: self.spatial_size is -1 or the pair (spatial_size, spatial_size)
SelfSpatialSize(a) ==
    IF a.spatial_size # -1
    THEN PyTuple(<<a.spatial_size, a.spatial_size>>)
    ELSE PyInt(a.spatial_size)

\* variant: `and` written for `^`
SizeAssertOk_And(a) ==
    ~ (EqMinusOne(SelfSpatialSize(a)) /\ a.temporal_size = -1)

\* line 23: assert not (self.spatial_size == -1) ^ (self.temporal_size == -1)
\* (`not` binds weaker than `^`)
SizeAssertOk(a) ==
    ~ Xor(EqMinusOne(SelfSpatialSize(a)), a.temporal_size = -1)

\* an attribute that was never assigned
Unset == [kind |-> "unset"]

\* variant: the fixed kernel is built as (spatial, spatial, temporal)
PoolSetup_Swapped(a) ==
    LET ss == SelfSpatialSize(a)
        ts == a.temporal_size
    IN IF ts = -1 /\ EqMinusOne(ss)
       THEN [pool_size |-> <<1, 1, 1>>,
             pool_func |-> [kind |-> IF a.spatial_type = "avg"
                                     THEN "AdaptiveAvgPool3d" ELSE "AdaptiveMaxPool3d",
                            size |-> <<1, 1, 1>>]]
       ELSE [pool_size |-> ss.tuple \o <<ts>>,
             pool_func |-> [kind |-> IF a.spatial_type = "avg"
                                     THEN "AvgPool3d" ELSE "MaxPool3d",
                            size |-> ss.tuple \o <<ts>>, stride |-> 1, padding |-> 0]]

\* lines 25-36: the two branches, each with two independent `if`s that assign
\* self.pool_func; the attribute stays unset when neither fires
PoolSetup(a) ==
    LET ss == SelfSpatialSize(a)
        ts == a.temporal_size
    IN IF ts = -1 /\ EqMinusOne(ss)
       THEN LET ps == <<1, 1, 1>>
                f0 == Unset
                f1 == IF a.spatial_type = "avg"
                      THEN [kind |-> "AdaptiveAvgPool3d", size |-> ps] ELSE f0
                f2 == IF a.spatial_type = "max"
                      THEN [kind |-> "AdaptiveMaxPool3d", size |-> ps] ELSE f1
            IN [pool_size |-> ps, pool_func |-> f2]
       ELSE LET ps == <<ts>> \o ss.tuple
                f0 == Unset
                f1 == IF a.spatial_type = "avg"
                      THEN [kind |-> "AvgPool3d", size |-> ps, stride |-> 1, padding |-> 0]
                      ELSE f0
                f2 == IF a.spatial_type = "max"
                      THEN [kind |-> "MaxPool3d", size |-> ps, stride |-> 1, padding |-> 0]
                      ELSE f1
            IN [pool_size |-> ps, pool_func |-> f2]

\* SimpleSTModule.__init__: the object built, or the error raised
STConstruct(a) ==
    IF ~ TypeAssertOk(a) THEN [err |-> "AssertionError", line |-> 14]
    ELSE IF ~ SizeAssertOk(a) THEN [err |-> "AssertionError", line |-> 23]
    ELSE LET p == PoolSetup(a)
         IN [err |-> None, line |-> 0,
             spatial_type |-> a.spatial_type,
             spatial_size |-> SelfSpatialSize(a),
             temporal_size |-> a.temporal_size,
             pool_size |-> p.pool_size,
             pool_func |-> p.pool_func]

STNew ==
    /\ st_pc = "new"
    /\ st_self' = STConstruct(st_args)
    /\ st_pc' = IF STConstruct(st_args).err = None THEN "built" ELSE "failed"
    /\ UNCHANGED <<st_args, st_data, st_out, cs_vars, hd_vars, ls_vars>>

\* the 5-dimensional feature maps (batch, channel, time, height, width) pooled
PoolInputs == [1..5 -> 1..MaxDim]

\* nn.*Pool3d applied to a tensor of the given shape: the output shape, or
\* the error for a kernel that is not positive or exceeds the input
PoolApply(f, shape) ==
    IF f.kind = "unset" THEN [err |-> "AttributeError", shape |-> <<>>]
    ELSE IF f.kind \in {"AdaptiveAvgPool3d", "AdaptiveMaxPool3d"}
    THEN [err |-> None,
          shape |-> <<shape[1], shape[2], f.size[1], f.size[2], f.size[3]>>]
    ELSE IF \E i \in 1..3 : f.size[i] <= 0 \/ f.size[i] > shape[i + 2] + 2 * f.padding
    THEN [err |-> "RuntimeError", shape |-> <<>>]
    ELSE [err |-> None,
          shape |-> <<shape[1], shape[2],
                      ((shape[3] + 2 * f.padding - f.size[1]) \div f.stride) + 1,
                      ((shape[4] + 2 * f.padding - f.size[2]) \div f.stride) + 1,
                      ((shape[5] + 2 * f.padding - f.size[3]) \div f.stride) + 1>>]

\* SimpleSTModule.forward
STForward ==
    /\ st_pc = "built"
    /\ \E d \in PoolInputs :
         /\ st_data' = d
         /\ st_out' = PoolApply(st_self.pool_func, d)
    /\ st_pc' = "forwarded"
    /\ UNCHANGED <<st_args, st_self, cs_vars, hd_vars, ls_vars>>

STNext == STNew \/ STForward

SpecST == STInit /\ [][STNext]_vars

STConstructed == st_pc \in {"built", "failed", "forwarded"}
STSucceeded   == st_pc \in {"built", "forwarded"}
ExactlyOneUnset(a) ==
    \/ (a.spatial_size = -1 /\ a.temporal_size # -1)
    \/ (a.spatial_size # -1 /\ a.temporal_size = -1)
BothUnset(a) == a.spatial_size = -1 /\ a.temporal_size = -1

\* C1: constructing SimpleSTModule with exactly one of spatial_size and
\* temporal_size equal to -1 raises an AssertionError; with both unset or
\* both set the mutual-exclusion assertion (line 23) does not fail.
C1_MutualExclusion ==
    STConstructed =>
        /\ ExactlyOneUnset(st_args) =>
              st_pc = "failed" /\ st_self.err = "AssertionError"
        /\ ~ ExactlyOneUnset(st_args) =>
              ~ (st_pc = "failed" /\ st_self.line = 23)
        /\ (ExactlyOneUnset(st_args) /\ st_args.spatial_type \in {"avg", "max"}) =>
              st_self.line = 23

C1_Witness ==
    /\ st_pc = "failed"
    /\ st_self.line = 23
    /\ st_args.spatial_size = 2
    /\ st_args.temporal_size = -1

\* C2: a successfully constructed SimpleSTModule uses adaptive global pooling
\* (output extent (1,1,1)) iff both sizes are -1; otherwise it uses
\* fixed-kernel pooling with kernel (temporal_size, spatial_size,
\* spatial_size), stride 1 and padding 0.
C2_PoolingMode ==
    STSucceeded =>
        LET f == st_self.pool_func
            adaptive == f.kind \in {"AdaptiveAvgPool3d", "AdaptiveMaxPool3d"}
            fixed    == f.kind \in {"AvgPool3d", "MaxPool3d"}
        IN /\ adaptive <=> BothUnset(st_args)
           /\ adaptive =>
                /\ f.size = <<1, 1, 1>>
                /\ st_pc = "forwarded" =>
                      /\ st_out.err = None
                      /\ st_out.shape = <<st_data[1], st_data[2], 1, 1, 1>>
           /\ ~ BothUnset(st_args) =>
                /\ fixed
                /\ f.size = <<st_args.temporal_size,
                              st_args.spatial_size, st_args.spatial_size>>
                /\ f.stride = 1
                /\ f.padding = 0

C2_Witness ==
    /\ st_pc = "forwarded"
    /\ st_args.temporal_size = 1
    /\ st_args.spatial_size = 2
    /\ st_self.pool_func.kind = "AvgPool3d"
    /\ st_out.err = None

\* C9: every successfully constructed SimpleSTModule has a pooling function
\* and it matches spatial_type (average for 'avg', max for 'max') in both
\* modes; any other spatial_type fails construction with an AssertionError,
\* so forward never runs without a pooling function.
C9_PoolFuncMatchesType ==
    /\ STSucceeded =>
          LET k == st_self.pool_func.kind
          IN /\ st_args.spatial_type \in {"avg", "max"}
             /\ st_args.spatial_type = "avg" => k \in {"AdaptiveAvgPool3d", "AvgPool3d"}
             /\ st_args.spatial_type = "max" => k \in {"AdaptiveMaxPool3d", "MaxPool3d"}
    /\ (STConstructed /\ st_args.spatial_type \notin {"avg", "max"}) =>
          st_pc = "failed" /\ st_self.err = "AssertionError"
    /\ st_pc = "forwarded" => st_out.err # "AttributeError"

C9_Witness ==
    /\ st_pc = "forwarded"
    /\ st_args.spatial_type = "max"
    /\ st_self.pool_func.kind = "MaxPool3d"

(***************************************************************************)
(* _SimpleConsensus / SimpleConsensus                                      *)
(***************************************************************************)
XVals    == {-1, 2}
GradVals == {-1, 2}
ConsRanks == {1, 2, 3}
DimArgs  == -3..2

CSInit ==
    /\ STIdle /\ HDIdle /\ LSIdle
    /\ cs_pc = "new"
    /\ cs_x \in Tensors(Shapes(ConsRanks, ConsMaxElems), XVals)
    /\ cs_dim \in DimArgs
    /\ cs_ctx = None
    /\ cs_out = None
    /\ cs_gout = None
    /\ cs_gin = None

\* a dim argument names an axis of a rank-r tensor when -r <= dim < r
DimInRange(r, dim) == -r <= dim /\ dim < r

\* the 1-based axis a (possibly negative) dim argument names
Axis(r, dim) == IF dim < 0 THEN dim + r + 1 ELSE dim + 1

\* flat (1-based) positions of the input elements reduced into the output
\* element at flat position o, for a reduction of axis d
Reduced(sh, d, o) ==
    LET inner == Stride(sh, d)
        outer == (o - 1) \div inner
        in    == (o - 1) % inner
    IN [n \in 1..sh[d] |-> outer * sh[d] * inner + (n - 1) * inner + in + 1]

\* variant: x.sum(dim=dim, keepdim=True), the division by the count is lost
MeanKeepdim_Sum(x, dim) ==
    IF ~ DimInRange(Len(x.shape), dim)
    THEN [err |-> "IndexError", shape |-> <<>>, data |-> <<>>]
    ELSE LET d   == Axis(Len(x.shape), dim)
             osh == [x.shape EXCEPT ![d] = 1]
         IN [err |-> None,
             shape |-> osh,
             data |-> [o \in 1..Prod(osh) |->
                         LET idx == Reduced(x.shape, d, o)
                         IN Frac(SumSeq([n \in 1..x.shape[d] |-> x.data[idx[n]]]), 1)]]

\* x.mean(dim=dim, keepdim=True)
MeanKeepdim(x, dim) ==
    IF ~ DimInRange(Len(x.shape), dim)
    THEN [err |-> "IndexError", shape |-> <<>>, data |-> <<>>]
    ELSE LET d   == Axis(Len(x.shape), dim)
             osh == [x.shape EXCEPT ![d] = 1]
         IN [err |-> None,
             shape |-> osh,
             data |-> [o \in 1..Prod(osh) |->
                         LET idx == Reduced(x.shape, d, o)
                         IN Frac(SumSeq([n \in 1..x.shape[d] |-> x.data[idx[n]]]),
                                 x.shape[d])]]

\* _SimpleConsensus.forward (reached through SimpleConsensus.forward)
CSForward ==
    /\ cs_pc = "new"
    /\ cs_ctx' = [shape |-> cs_x.shape, dim |-> cs_dim]
    /\ cs_out' = MeanKeepdim(cs_x, cs_dim)
    /\ cs_pc' = IF MeanKeepdim(cs_x, cs_dim).err = None THEN "forwarded" ELSE "failed"
    /\ UNCHANGED <<cs_x, cs_dim, cs_gout, cs_gin, st_vars, hd_vars, ls_vars>>

\* flat position in a tensor of shape osh (extent 1 on axis d) that expand()
\* reads for the flat position i of the expanded shape sh
ExpandSource(sh, d, i) ==
    LET inner == Stride(sh, d)
        outer == (i - 1) \div (sh[d] * inner)
        in    == (i - 1) % inner
    IN outer * inner + in + 1

\* variant: divides by the extent of axis 0 instead of the reduced axis
GradIn_Axis0(ctx, gout) ==
    LET d == Axis(Len(ctx.shape), ctx.dim)
    IN [shape |-> ctx.shape,
        data |-> [i \in 1..Prod(ctx.shape) |->
                    Frac(gout.data[ExpandSource(ctx.shape, d, i)], ctx.shape[1])]]

\* grad_output.expand(ctx.shape) / float(ctx.shape[ctx.dim])
GradIn(ctx, gout) ==
    LET d == Axis(Len(ctx.shape), ctx.dim)
        n == ctx.shape[d]
    IN [shape |-> ctx.shape,
        data |-> [i \in 1..Prod(ctx.shape) |->
                    Frac(gout.data[ExpandSource(ctx.shape, d, i)], n)]]

\* _SimpleConsensus.backward: returns (grad_in, None)
CSBackward ==
    /\ cs_pc = "forwarded"
    /\ \E g \in Tensors({cs_out.shape}, GradVals) :
         /\ cs_gout' = g
         /\ cs_gin' = <<GradIn(cs_ctx, g), None>>
    /\ cs_pc' = "backwarded"
    /\ UNCHANGED <<cs_x, cs_dim, cs_ctx, cs_out, st_vars, hd_vars, ls_vars>>

CSNext == CSForward \/ CSBackward

SpecCons == CSInit /\ [][CSNext]_vars

\* multi-indices (1-based coordinates) of a tensor of shape sh, and the flat
\* row-major position of one
MultiIndices(sh) ==
    { k \in [1..Len(sh) -> 1..ConsMaxElems + 1] : \A a \in 1..Len(sh) : k[a] <= sh[a] }
Ravel(sh, k) == 1 + SumSeq([a \in 1..Len(sh) |-> (k[a] - 1) * Stride(sh, a)])
At(t, k) == t.data[Ravel(t.shape, k)]

AddFrac(a, b) == Frac(a[1] * b[2] + b[1] * a[2], a[2] * b[2])
RECURSIVE SumFrac(_)
SumFrac(q) == IF q = <<>> THEN <<0, 1>> ELSE AddFrac(Head(q), SumFrac(Tail(q)))

CSAxis == Axis(Len(cs_x.shape), cs_dim)

\* C3: SimpleConsensus forward, for every input tensor and every dim naming
\* one of its axes: the output has extent 1 along dim and the input's extent
\* on every other axis, and each output element is the arithmetic mean of
\* the input elements along dim at the same remaining indices (segment count
\* times the output element equals their sum).
C3_ForwardIsMean ==
    (cs_pc \in {"forwarded", "failed"} /\ DimInRange(Len(cs_x.shape), cs_dim)) =>
        /\ cs_pc = "forwarded"
        /\ Len(cs_out.shape) = Len(cs_x.shape)
        /\ \A a \in 1..Len(cs_x.shape) :
              cs_out.shape[a] = IF a = CSAxis THEN 1 ELSE cs_x.shape[a]
        /\ Len(cs_out.data) = Prod(cs_out.shape)
        /\ \A k \in MultiIndices(cs_out.shape) :
              LET m == At(cs_out, k)
                  total == SumSeq([n \in 1..cs_x.shape[CSAxis] |->
                                     At(cs_x, [k EXCEPT ![CSAxis] = n])])
              IN m[2] > 0 /\ cs_x.shape[CSAxis] * m[1] = total * m[2]

C3_Witness ==
    /\ cs_pc = "forwarded"
    /\ cs_x.shape = <<2, 2>>
    /\ cs_dim = 1
    /\ cs_x.data = <<-1, 2, 2, 2>>
    /\ cs_out.data = << <<1, 2>>, <<2, 1>> >>

\* C4: SimpleConsensus backward after a forward on an input with N segments
\* along dim: the input gradient has the input's shape, every segment's
\* gradient is the upstream gradient divided by N, the gradients summed over
\* the N segments equal the upstream gradient, and no gradient is returned
\* for dim.
C4_BackwardSpreadsEvenly ==
    cs_pc = "backwarded" =>
        LET gi == cs_gin[1]
            N  == cs_x.shape[CSAxis]
        IN /\ Len(cs_gin) = 2
           /\ cs_gin[2] = None
           /\ gi.shape = cs_x.shape
           /\ Len(gi.data) = Prod(cs_x.shape)
           /\ \A k \in MultiIndices(cs_x.shape) :
                 LET up == At(cs_gout, [k EXCEPT ![CSAxis] = 1])
                     g  == At(gi, k)
                 IN g[2] > 0 /\ N * g[1] = up * g[2]
           /\ \A k \in MultiIndices(cs_gout.shape) :
                 SumFrac([n \in 1..N |-> At(gi, [k EXCEPT ![CSAxis] = n])])
                    = <<At(cs_gout, k), 1>>

C4_Witness ==
    /\ cs_pc = "backwarded"
    /\ cs_x.shape = <<2, 2>>
    /\ cs_dim = -1
    /\ cs_gout.data = <<-1, 2>>
    /\ cs_gin[1].data = << <<-1, 2>>, <<-1, 2>>, <<1, 1>>, <<1, 1>> >>

(***************************************************************************)
(* SimpleClsHead: construction and forward                                 *)
(***************************************************************************)
DropoutRatios == {<<0, 1>>, <<4, 5>>}     \* 0 and the default 0.8
NumClasses    == {2}
BatchSizes    == {1, 2}
HeadRanks     == 1..6

HeadConfigs ==
    [with_avg_pool : BOOLEAN,
     temporal_feature_size : 1..MaxSize,
     spatial_feature_size : 1..MaxSize,
     dropout_ratio : DropoutRatios,
     in_channels : 1..MaxSize,
     num_classes : NumClasses,
     non_linear : BOOLEAN,
     nonlinear_channels : 1..MaxSize]

HDInit ==
    /\ STIdle /\ CSIdle /\ LSIdle
    /\ hd_pc = "new"
    /\ hd_cfg \in HeadConfigs
    /\ hd_self = None
    /\ hd_x = None
    /\ hd_res = None

\* SimpleClsHead.__init__ (lines 87-115): the attributes and sub-modules
HeadConstruct(c) ==
    [with_avg_pool |-> c.with_avg_pool,
     dropout_ratio |-> c.dropout_ratio,
     in_channels |-> c.in_channels,
     temporal_feature_size |-> c.temporal_feature_size,
     spatial_feature_size |-> c.spatial_feature_size,
     num_classes |-> c.num_classes,
     non_linear |-> c.non_linear,
     nonlinear_channels |-> c.nonlinear_channels,
     dropout |-> IF c.dropout_ratio # <<0, 1>>
                 THEN [kind |-> "Dropout", p |-> c.dropout_ratio]
                 ELSE [kind |-> "None"],
     avg_pool |-> IF c.with_avg_pool
                  THEN [kind |-> "AvgPool3d",
                        size |-> <<c.temporal_feature_size,
                                   c.spatial_feature_size, c.spatial_feature_size>>]
                  ELSE Unset,
     fc_nl |-> IF c.non_linear THEN [kind |-> "Sequential(Identity)"] ELSE Unset,
     fc_cls |-> [kind |-> "Linear",
                 in_features |-> IF c.non_linear THEN c.nonlinear_channels
                                 ELSE c.in_channels,
                 out_features |-> c.num_classes]]

HDNew ==
    /\ hd_pc = "new"
    /\ hd_self' = HeadConstruct(hd_cfg)
    /\ hd_pc' = "built"
    /\ UNCHANGED <<hd_cfg, hd_x, hd_res, st_vars, cs_vars, ls_vars>>

\* input tensors: the k-th element of the contiguous data is named k
Iota(n) == [i \in 1..n |-> i]
RECURSIVE HeadShapesOfRank(_)
HeadShapesOfRank(r) ==
    IF r = 1 THEN { <<b>> : b \in BatchSizes }
    ELSE { t \o <<e>> : t \in HeadShapesOfRank(r - 1), e \in 1..MaxSize }
HeadInputs ==
    { [shape |-> sh, data |-> Iota(Prod(sh))] :
      sh \in UNION { HeadShapesOfRank(r) : r \in HeadRanks } }

\* x.unsqueeze(a) for the 0-based axis a: a singleton axis is inserted, the
\* contiguous data stay as they are
Unsqueeze(x, a) ==
    [shape |-> SubSeq(x.shape, 1, a) \o <<1>> \o SubSeq(x.shape, a + 1, Len(x.shape)),
     data |-> x.data]

\* variant: the singleton axis is inserted in front of the channel axis
To5D_Axis1(x) == IF Len(x.shape) = 4 THEN Unsqueeze(x, 1) ELSE x

\* lines 127-128
To5D(x) == IF Len(x.shape) = 4 THEN Unsqueeze(x, 2) ELSE x

\* lines 129-132: the four assertions in order; x.shape[i] on a tensor of
\* rank <= i raises IndexError
RECURSIVE CheckFrom(_, _, _)
CheckFrom(sh, expected, i) ==
    IF i > 4 THEN None
    ELSE IF Len(sh) <= i THEN "IndexError"
    ELSE IF sh[i + 1] # expected[i] THEN "AssertionError"
    ELSE CheckFrom(sh, expected, i + 1)

\* variant: the last assertion repeats x.shape[3] and never reads the width
HeadValidate_NoWidth(self, x) ==
    CheckFrom(x.shape,
              <<self.in_channels, self.temporal_feature_size,
                self.spatial_feature_size>>
              \o (IF Len(x.shape) > 4 THEN <<x.shape[5]>> ELSE <<0>>), 1)

HeadValidate(self, x) ==
    CheckFrom(x.shape,
              <<self.in_channels, self.temporal_feature_size,
                self.spatial_feature_size, self.spatial_feature_size>>, 1)

\* nn.AvgPool3d(kernel) (stride = kernel, no padding) on a 5-dimensional
\* tensor: every output element is the mean of one kernel-sized window
AvgPool3d(f, x) ==
    IF Len(x.shape) \notin {4, 5} \/ \E i \in 1..3 : f.size[i] > x.shape[Len(x.shape) - 3 + i]
    THEN [err |-> "RuntimeError", shape |-> <<>>, data |-> <<>>]
    ELSE LET r   == Len(x.shape)
             osh == [a \in 1..r |->
                        IF a <= r - 3 THEN x.shape[a]
                        ELSE ((x.shape[a] - f.size[a - (r - 3)]) \div f.size[a - (r - 3)]) + 1]
             lead == SubSeq(x.shape, 1, r - 3)
             T == x.shape[r - 2]
             H == x.shape[r - 1]
             W == x.shape[r]
             oT == osh[r - 2]
             oH == osh[r - 1]
             oW == osh[r]
             win == f.size[1] * f.size[2] * f.size[3]
             src(o, t, h, w) ==
                LET blk == (o - 1) \div (oT * oH * oW)
                    rem == (o - 1) % (oT * oH * oW)
                    ot == rem \div (oH * oW)
                    oh == (rem % (oH * oW)) \div oW
                    ow == rem % oW
                IN blk * T * H * W
                   + (ot * f.size[1] + t) * H * W
                   + (oh * f.size[2] + h) * W
                   + (ow * f.size[3] + w) + 1
         IN [err |-> None,
             shape |-> osh,
             data |-> [o \in 1..Prod(osh) |->
                         Frac(SumSeq([j \in 1..win |->
                                 x.data[src(o, (j - 1) \div (f.size[2] * f.size[3]),
                                           ((j - 1) % (f.size[2] * f.size[3])) \div f.size[3],
                                           (j - 1) % f.size[3])]]),
                              win)]]

NoLogits == [shape |-> <<>>, input |-> <<>>]

\* SimpleClsHead.forward: the error raised (None when it returns), the
\* stages applied to x in order, the features handed to fc_cls and the
\* logits returned
HeadForward(self, x0) ==
    LET x1 == To5D(x0)
        v  == HeadValidate(self, x1)
    IN IF v # None
       THEN [err |-> v, stages |-> <<>>, feat |-> <<>>, logits |-> NoLogits]
       ELSE
       LET pooled == IF self.with_avg_pool THEN AvgPool3d(self.avg_pool, x1)
                     ELSE [err |-> None, shape |-> x1.shape, data |-> x1.data]
           s1 == IF self.with_avg_pool THEN <<"avg_pool">> ELSE <<>>
       IN IF pooled.err # None
          THEN [err |-> pooled.err, stages |-> <<>>, feat |-> <<>>, logits |-> NoLogits]
          ELSE
          LET s2 == IF self.dropout.kind # "None" THEN s1 \o <<"dropout">> ELSE s1
              \* x.view(x.size(0), -1)
              flat == [shape |-> <<pooled.shape[1], Prod(Tail(pooled.shape))>>,
                       data |-> pooled.data]
              s3 == s2 \o <<"view">>
              \* self.fc_nl is Sequential(Identity()): x passes through unchanged
              s4 == IF self.non_linear THEN s3 \o <<"fc_nl">> ELSE s3
          IN IF flat.shape[2] # self.fc_cls.in_features
             THEN [err |-> "RuntimeError", stages |-> s4, feat |-> flat,
                   logits |-> NoLogits]
             ELSE [err |-> None, stages |-> s4 \o <<"fc_cls">>, feat |-> flat,
                   logits |-> [shape |-> <<flat.shape[1], self.fc_cls.out_features>>,
                               input |-> flat.data]]

HDForward ==
    /\ hd_pc = "built"
    /\ \E x \in HeadInputs :
         /\ hd_x' = x
         /\ hd_res' = HeadForward(hd_self, x)
    /\ hd_pc' = "done"
    /\ UNCHANGED <<hd_cfg, hd_self, st_vars, cs_vars, ls_vars>>

HDNext == HDNew \/ HDForward

SpecHead == HDInit /\ [][HDNext]_vars

\* the extents forward compares, read off the input as given
HRank == Len(hd_x.shape)
ChannelDiffers  == HRank >= 2 /\ hd_x.shape[2] # hd_cfg.in_channels
TemporalDiffers ==
    \/ HRank = 4 /\ hd_cfg.temporal_feature_size # 1
    \/ HRank \notin {1, 2, 4} /\ hd_x.shape[3] # hd_cfg.temporal_feature_size
SpatialDiffers ==
    \/ HRank = 4 /\ (\/ hd_x.shape[3] # hd_cfg.spatial_feature_size
                      \/ hd_x.shape[4] # hd_cfg.spatial_feature_size)
    \/ HRank >= 5 /\ (\/ hd_x.shape[4] # hd_cfg.spatial_feature_size
                       \/ hd_x.shape[5] # hd_cfg.spatial_feature_size)
ShapeMismatch == ChannelDiffers \/ TemporalDiffers \/ SpatialDiffers
PassesValidation == HRank \in {4, 5} /\ ~ ShapeMismatch

\* C5: SimpleClsHead.forward on an input whose channel, temporal, height or
\* width extent differs from the configured one fails with an AssertionError
\* (no other error) before pooling, dropout or any projection is applied and
\* returns no logits.
C5_MismatchAsserts ==
    (hd_pc = "done" /\ ShapeMismatch) =>
        /\ hd_res.err = "AssertionError"
        /\ hd_res.stages = <<>>
        /\ hd_res.logits = NoLogits

C5_Witness ==
    /\ hd_pc = "done"
    /\ HRank = 5
    /\ hd_x.shape[2] = hd_cfg.in_channels
    /\ hd_x.shape[3] = hd_cfg.temporal_feature_size
    /\ hd_x.shape[4] = hd_cfg.spatial_feature_size
    /\ hd_x.shape[5] # hd_cfg.spatial_feature_size
    /\ hd_res.err = "AssertionError"

\* C7: for every configuration of the head and every input that passes the
\* shape validation, forward completes and returns logits of shape
\* (batch, num_classes): the flattened feature length handed to fc_cls
\* equals fc_cls's input width, and the non-linear block passes features
\* through unchanged.
C7_ForwardAlwaysCompletes ==
    (hd_pc = "done" /\ PassesValidation) =>
        /\ hd_res.err = None
        /\ hd_res.feat.shape[2] = hd_self.fc_cls.in_features
        /\ hd_res.logits.shape = <<hd_x.shape[1], hd_cfg.num_classes>>

\* C10: forward treats a 4-dimensional input (batch, channel, height, width)
\* as the 5-dimensional input with temporal extent 1: it passes validation
\* iff temporal_feature_size is 1 and channel, height and width match, its
\* outcome (logits or error) is that of the 5-dimensional input
\* (batch, channel, 1, height, width) over the same elements, and with
\* temporal_feature_size # 1 it is rejected with an AssertionError.
C10_FourDimAsSingletonTime ==
    (hd_pc = "done" /\ HRank = 4) =>
        LET x5 == [shape |-> <<hd_x.shape[1], hd_x.shape[2], 1,
                               hd_x.shape[3], hd_x.shape[4]>>,
                   data |-> hd_x.data]
            accepted == hd_res.err \notin {"AssertionError", "IndexError"}
        IN /\ accepted <=>
                /\ hd_cfg.temporal_feature_size = 1
                /\ hd_x.shape[2] = hd_cfg.in_channels
                /\ hd_x.shape[3] = hd_cfg.spatial_feature_size
                /\ hd_x.shape[4] = hd_cfg.spatial_feature_size
           /\ hd_res = HeadForward(hd_self, x5)
           /\ hd_cfg.temporal_feature_size # 1 => hd_res.err = "AssertionError"

C10_Witness ==
    /\ hd_pc = "done"
    /\ HRank = 4
    /\ hd_x.shape = <<2, 2, 2, 2>>
    /\ hd_cfg.with_avg_pool
    /\ hd_res.err = None
    /\ hd_res.logits.shape = <<2, 2>>
    /\ hd_res.logits.input = << <<5, 2>>, <<13, 2>>, <<21, 2>>, <<29, 2>> >>

(***************************************************************************)
(* SimpleClsHead.loss                                                      *)
(***************************************************************************)
LogitVals  == {0, 1}
LossRanks  == {2, 3}

LogitShapes ==
    { sh \in Shapes(LossRanks, LossMaxElems) : sh[Len(sh)] <= MaxClasses }

\* 1-dimensional label tensors of length n or n - 1 over classes 0..k-1
LabelTensors(n, k) ==
    UNION { { [shape |-> <<m>>, data |-> dt] : dt \in [1..m -> 0..(k - 1)] } :
            m \in {n - 1, n} \ {0} }

LSInit ==
    /\ STIdle /\ CSIdle /\ HDIdle
    /\ ls_pc = "new"
    /\ ls_logits \in Tensors(LogitShapes, LogitVals)
    /\ ls_labels \in LabelTensors(ls_logits.shape[1],
                                   ls_logits.shape[Len(ls_logits.shape)])
    /\ ls_res = None

\* t.view(shape) of a contiguous tensor; one extent may be -1
View(t, sh) ==
    LET known == Prod([a \in 1..Len(sh) |-> IF sh[a] = -1 THEN 1 ELSE sh[a]])
    IN [shape |-> [a \in 1..Len(sh) |->
                     IF sh[a] = -1 THEN Prod(t.shape) \div known ELSE sh[a]],
        data |-> t.data]

\* t.repeat([r1, r2]) of a 2-dimensional tensor: the tensor tiled r1 times
\* along axis 0 and r2 times along axis 1
Repeat2(t, r1, r2) ==
    LET rows == t.shape[1]
        cols == t.shape[2]
    IN [shape |-> <<rows * r1, cols * r2>>,
        data |-> [p \in 1..(rows * r1 * cols * r2) |->
                    LET i == (p - 1) \div (cols * r2)
                        j == (p - 1) % (cols * r2)
                    IN t.data[(i % rows) * cols + (j % cols) + 1]]]

\* variant: labels.repeat(num_segs), the whole label vector tiled num_segs times
ReplicateLabels_Tiled(labels, batch_size, num_segs) ==
    View(Repeat2(View(labels, <<1, batch_size>>), 1, num_segs), <<-1>>)

\* lines 150-151: each sample's label repeated num_segs times, then flattened
ReplicateLabels(labels, batch_size, num_segs) ==
    View(Repeat2(View(labels, <<batch_size, 1>>), 1, num_segs), <<-1>>)

\* row r (1-based) of a 2-dimensional tensor
Row(t, r) == SubSeq(t.data, (r - 1) * t.shape[2] + 1, r * t.shape[2])

\* cls_logits.max(dim=1)[1]: per row the 0-based index of the first maximum
ArgMaxRow(row) ==
    CHOOSE m \in 0..(Len(row) - 1) :
        /\ \A c \in 1..Len(row) : row[c] <= row[m + 1]
        /\ \A c \in 1..m : row[c] < row[m + 1]

MaxIndex(logits) == [r \in 1..logits.shape[1] |-> ArgMaxRow(Row(logits, r))]

\* variant: the count is divided by cls_logits.size(1), the number of classes
Accuracy_Size1(logits, labels) ==
    LET mi == MaxIndex(logits)
        correct == Cardinality({ r \in 1..logits.shape[1] : labels.data[r] = mi[r] })
    IN Frac(correct, logits.shape[2])

\* lines 158-160: (labels.eq(max_index)).sum().float() / cls_logits.size(0)
Accuracy(logits, labels) ==
    LET mi == MaxIndex(logits)
        correct == Cardinality({ r \in 1..logits.shape[1] : labels.data[r] = mi[r] })
    IN Frac(correct, logits.shape[1])

\* F.cross_entropy(input, target) with class-index targets: the batch
\* sizes must agree; the value is the mean negative log-likelihood of the
\* pairs (row r of input, target r), kept as the pairs it is computed from
CrossEntropy(input, target) ==
    IF input.shape[1] # target.shape[1]
    THEN [err |-> "ValueError", pairs |-> <<>>]
    ELSE [err |-> None,
          pairs |-> [r \in 1..input.shape[1] |->
                       [row |-> Row(input, r), target |-> target.data[r]]]]

NoLoss(e) == [err |-> e, loss_cls |-> <<>>, acc |-> <<>>]

\* SimpleClsHead.loss
Loss(cls_logits, labels) ==
    LET multi == Len(cls_logits.shape) = 3 /\ Len(labels.shape) = 1
        batch_size == cls_logits.shape[1]
        num_segs   == cls_logits.shape[2]
    IN IF multi /\ batch_size # labels.shape[1]
       THEN NoLoss("AssertionError")
       ELSE
       LET lb == IF multi THEN ReplicateLabels(labels, batch_size, num_segs)
                 ELSE labels
           lg == IF multi THEN View(cls_logits, <<batch_size * num_segs, -1>>)
                 ELSE cls_logits
           ce == CrossEntropy(lg, lb)
       IN IF ce.err # None THEN NoLoss(ce.err)
          ELSE [err |-> None,
                loss_cls |-> ce.pairs,
                acc |-> Accuracy(lg, lb)]

LSLoss ==
    /\ ls_pc = "new"
    /\ ls_res' = Loss(ls_logits, ls_labels)
    /\ ls_pc' = "done"
    /\ UNCHANGED <<ls_logits, ls_labels, st_vars, cs_vars, hd_vars>>

LSNext == LSLoss

SpecLoss == LSInit /\ [][LSNext]_vars

LBatch   == ls_logits.shape[1]
LSegs    == IF Len(ls_logits.shape) = 3 THEN ls_logits.shape[2] ELSE 1
LClasses == ls_logits.shape[Len(ls_logits.shape)]

\* the scores of sample i, segment j (1-based) read off the logits as given
Scores(i, j) ==
    [c \in 1..LClasses |->
        IF Len(ls_logits.shape) = 3 THEN At(ls_logits, <<i, j, c>>)
        ELSE At(ls_logits, <<i, c>>)]

\* C6: loss on 3-dimensional logits (batch, num_segs, classes) with
\* 1-dimensional labels computes the cross-entropy of the flattened
\* (batch*num_segs, classes) logits with replicated labels: row
\* i*num_segs + j holds the logits of sample i, segment j and is paired with
\* the label of sample i; labels of another length raise an AssertionError.
C6_LabelsReplicatedPerSegment ==
    (ls_pc = "done" /\ Len(ls_logits.shape) = 3) =>
        IF ls_labels.shape[1] # LBatch
        THEN ls_res.err = "AssertionError"
        ELSE /\ ls_res.err = None
             /\ Len(ls_res.loss_cls) = LBatch * LSegs
             /\ \A i \in 0..(LBatch - 1) : \A j \in 0..(LSegs - 1) :
                   LET pair == ls_res.loss_cls[i * LSegs + j + 1]
                   IN /\ pair.row = Scores(i + 1, j + 1)
                      /\ pair.target = ls_labels.data[i + 1]

C6_Witness ==
    /\ ls_pc = "done"
    /\ ls_logits.shape = <<2, 2, 2>>
    /\ ls_logits.data = <<0, 1, 1, 0, 1, 1, 0, 0>>
    /\ ls_labels.data = <<0, 1>>
    /\ ls_res.err = None
    /\ ls_res.loss_cls[2] = [row |-> <<1, 0>>, target |-> 0]
    /\ ls_res.loss_cls[3] = [row |-> <<1, 1>>, target |-> 1]

\* 0-based index of the highest score, the first one on ties
Top(row) ==
    CHOOSE m \in 0..(Len(row) - 1) :
        \A c \in 1..Len(row) :
            IF c <= m THEN row[c] < row[m + 1] ELSE row[c] <= row[m + 1]

\* the (sample, segment) rows whose top class is the sample's label
CorrectRows ==
    { ij \in (1..LBatch) \X (1..LSegs) :
        Top(Scores(ij[1], ij[2])) = ls_labels.data[ij[1]] }

\* C8: next to the loss, loss returns the top-1 accuracy: the number of rows
\* whose highest-scoring class (first index on ties) is the row's label,
\* divided by the number of rows scored (batch*num_segs for multi-segment
\* logits, batch otherwise); it lies between 0 and 1 and is 1 exactly when
\* every row's top class matches its label.
C8_TopOneAccuracy ==
    (ls_pc = "done" /\ ls_res.err = None) =>
        LET acc  == ls_res.acc
            rows == LBatch * LSegs
        IN /\ acc[2] > 0
           /\ acc[1] * rows = Cardinality(CorrectRows) * acc[2]
           /\ 0 <= acc[1] /\ acc[1] <= acc[2]
           /\ acc = <<1, 1>> <=> Cardinality(CorrectRows) = rows

C8_Witness ==
    /\ ls_pc = "done"
    /\ ls_logits.shape = <<2, 2, 2>>
    /\ ls_logits.data = <<0, 1, 1, 0, 1, 1, 0, 0>>
    /\ ls_labels.data = <<0, 1>>
    /\ ls_res.acc = <<1, 4>>

====
